---- MODULE Spec2Model ----
(***************************************************************************)
(* docker_deploy: a sequential command line tool that shells out to        *)
(* docker-compose, sudo mkdir/cp/chown, mv and cp.  The model keeps the    *)
(* file system the tool reads and changes, the process working directory,  *)
(* the Python call stack (one frame per function, with its position) and   *)
(* the list of external commands issued, each with the working directory   *)
(* it ran in and its return code.                                          *)
(*                                                                         *)
(* A path is the sequence of its components: /opt/app/data is              *)
(* <<"opt", "app", "data">> and / is <<>>.  A file system node carries     *)
(* kind, owning uid, mode (three octal digits) and, for a directory, the   *)
(* compose files it holds (relative name |-> parsed YAML).                 *)
(***************************************************************************)
EXTENDS Integers, Sequences, FiniteSets, TLC

VARIABLES fs, cwd, stack, trace, out, pstate, status, clock, ret, argv, runs,
          runsLeft, fs0

vars == <<fs, cwd, stack, trace, out, pstate, status, clock, ret, argv, runs,
          runsLeft, fs0>>

\* Longest volume list of a compose file drawn by InitVolumes.
MaxVols == 2
\* Number of invocations in a row in SpecVolumes.
MaxRuns == 2

COMPOSE_FILES ==
    << "./docker-compose.yml", "./docker-compose.yaml",
       "./compose.yml", "./compose.yaml" >>

ComposeNames == { COMPOSE_FILES[i] : i \in DOMAIN COMPOSE_FILES }

---------------------------------------------------------------------------
\* The user database (pwd) and file modes.

Passwd == { [name |-> "root", uid |-> 0],
            [name |-> "alice", uid |-> 1000],
            [name |-> "bob", uid |-> 1001] }

\* pwd.getpwuid(uid).pw_name; "?" stands for the KeyError of an unknown uid.
Getpwuid(uid) ==
    IF \E e \in Passwd : e.uid = uid
    THEN (CHOOSE e \in Passwd : e.uid = uid).name
    ELSE "?"

\* The uid chown(1) resolves an owner argument to: a user name through the
\* user database, otherwise the argument read as a number.
ChownUid(owner) ==
    IF \E e \in Passwd : e.name = owner
    THEN (CHOOSE e \in Passwd : e.name = owner).uid
    ELSE IF owner = "700" THEN 700 ELSE 65534

M700 == <<7, 0, 0>>
M755 == <<7, 5, 5>>

\* One octal digit with the write bit cleared (umask 022 on group and other).
ClearWrite(d) == IF (d \div 2) % 2 = 1 THEN d - 2 ELSE d

ApplyUmask(m) == <<m[1], ClearWrite(m[2]), ClearWrite(m[3])>>

---------------------------------------------------------------------------
\* Paths and the file system.

IsPrefix(p, q) == Len(p) <= Len(q) /\ SubSeq(q, 1, Len(p)) = p

Basename(p) == IF Len(p) = 0 THEN "" ELSE p[Len(p)]

Dirname(p) == IF Len(p) = 0 THEN <<>> ELSE SubSeq(p, 1, Len(p) - 1)

Reroot(q, src, dst) == dst \o SubSeq(q, Len(src) + 1, Len(q))

isdir(f, p) == p \in DOMAIN f /\ f[p].kind = "dir"

isfile(f, dir, name) == isdir(f, dir) /\ name \in DOMAIN f[dir].files

listdir(f, p) == { q \in DOMAIN f : Len(q) = Len(p) + 1 /\ IsPrefix(p, q) }

Subtree(f, p) == { q \in DOMAIN f : IsPrefix(p, q) }

NoFiles == [n \in {} |-> 0]

Dir(uid, mode) == [kind |-> "dir", uid |-> uid, mode |-> mode, files |-> NoFiles]

File(uid, mode) == [kind |-> "file", uid |-> uid, mode |-> mode, files |-> NoFiles]

\* A path argument: Python None, a relative path or an absolute path.
NoneArg == [kind |-> "none", comps |-> <<>>]
Rel(p) == [kind |-> "rel", comps |-> p]
Abs(p) == [kind |-> "abs", comps |-> p]

\* The directory a path argument names from working directory c.
Resolve(c, arg) == IF arg.kind = "abs" THEN arg.comps ELSE c \o arg.comps

\* os.path.abspath
abspath(c, arg) == Abs(Resolve(c, arg))

\* sudo mkdir -p p: p and its missing ancestors, made by root.
MkdirP(f, p) ==
    LET new == { SubSeq(p, 1, k) : k \in 0..Len(p) } \ DOMAIN f
    IN  [q \in DOMAIN f \cup new |-> IF q \in new THEN Dir(0, M755) ELSE f[q]]

\* Where cp -r / mv put src when told dst: inside dst if dst is a directory.
Landing(f, src, dst) == IF isdir(f, dst) THEN dst \o <<Basename(src)>> ELSE dst

\* cp -r src dst run by uid: the copies belong to uid, modes pass the umask.
CpR(f, src, dst, uid) ==
    LET to == Landing(f, src, dst)
        new == { Reroot(q, src, to) : q \in Subtree(f, src) }
    IN  [q \in DOMAIN f \cup new |->
            IF q \in new
            THEN LET o == f[Reroot(q, to, src)]
                 IN  [o EXCEPT !.uid = uid, !.mode = ApplyUmask(o.mode)]
            ELSE f[q]]

\* mv src dst: the tree is renamed, owners and modes kept.
Mv(f, src, dst) ==
    LET to == Landing(f, src, dst)
        old == Subtree(f, src)
        new == { Reroot(q, src, to) : q \in old }
    IN  [q \in (DOMAIN f \ old) \cup new |->
            IF q \in new THEN f[Reroot(q, to, src)] ELSE f[q]]

\* chown owner p
Chown(f, owner, p) ==
    [q \in DOMAIN f |-> IF q = p THEN [f[q] EXCEPT !.uid = ChownUid(owner)] ELSE f[q]]

\* chown -R owner p: p and everything below it.
ChownR(f, owner, p) ==
    [q \in DOMAIN f |->
        IF IsPrefix(p, q) THEN [f[q] EXCEPT !.uid = ChownUid(owner)] ELSE f[q]]

---------------------------------------------------------------------------
\* External commands.  argv0 holds the fixed words, owner the user argument
\* (or ""), paths the path arguments.

Cmd(words, owner, paths) == [words |-> words, owner |-> owner, paths |-> paths]

DOWN == Cmd(<<"docker-compose", "down">>, "", <<>>)
UP == Cmd(<<"docker-compose", "up", "-d">>, "", <<>>)
BUILD == Cmd(<<"docker-compose", "build">>, "", <<>>)
PS == Cmd(<<"docker", "ps">>, "", <<>>)
SudoMkdirP(p) == Cmd(<<"sudo", "mkdir", "-p">>, "", <<p>>)
SudoCpR(a, b) == Cmd(<<"sudo", "cp", "-r">>, "", <<a, b>>)
SudoChown(o, p) == Cmd(<<"sudo", "chown">>, o, <<p>>)
SudoChownR(o, p) == Cmd(<<"sudo", "chown", "-R">>, o, <<p>>)
MvCmd(a, b) == Cmd(<<"mv">>, "", <<a, b>>)
CpRCmd(a, b) == Cmd(<<"cp", "-r">>, "", <<a, b>>)

\* strftime('%Y%m%d_%H%M%S_utc') of clock reading t, appended to a name.
Stamped(name, t) == name \o "_" \o ToString(t) \o "_utc"

---------------------------------------------------------------------------
\* The process: its state as one record, and the steps every function uses.

State ==
    [fs |-> fs, cwd |-> cwd, stack |-> stack, trace |-> trace, out |-> out,
     pstate |-> pstate, status |-> status, clock |-> clock, ret |-> ret,
     argv |-> argv, runs |-> runs, runsLeft |-> runsLeft, fs0 |-> fs0]

Commit(s) ==
    /\ fs' = s.fs
    /\ cwd' = s.cwd
    /\ stack' = s.stack
    /\ trace' = s.trace
    /\ out' = s.out
    /\ pstate' = s.pstate
    /\ status' = s.status
    /\ clock' = s.clock
    /\ ret' = s.ret
    /\ argv' = s.argv
    /\ runs' = s.runs
    /\ runsLeft' = s.runsLeft
    /\ fs0' = s.fs0

\* The invoking user (os.environ['USER']).
USER == "alice"

\* The directory every invocation is started from.
ShellCwd == <<"home">>

Unset == <<"<unset>">>

NoRet == [fn |-> "", path |-> NoneArg, entry |-> <<>>, exit |-> <<>>]

Frame(fn, path) ==
    [fn |-> fn, pc |-> 0, path |-> path, rpath |-> NoneArg, old |-> Unset,
     entry |-> <<>>, vols |-> <<>>, ents |-> {}, to |-> <<>>, sel |-> ""]

Top(s) == s.stack[Len(s.stack)]

SetTop(s, fr) == [s EXCEPT !.stack[Len(s.stack)] = fr]

\* print(...)
Emit(s, msg, p) == [s EXCEPT !.out = Append(@, [msg |-> msg, path |-> p])]

\* The process ends with exit status code; the run is added to the history.
Finish(s, code) ==
    [s EXCEPT !.stack = <<>>, !.pstate = "exited", !.status = code,
              !.runs = Append(@, [argv |-> s.argv, trace |-> s.trace,
                                  status |-> code])]

\* sys.exit(1), or an exception nobody catches (CalledProcessError,
\* FileNotFoundError, KeyError): the interpreter exits with status 1.
Die(s) == Finish(s, 1)

\* The top frame moves to position pc and calls fn(path).
Call(s, pc, fn, path) ==
    LET here == [Top(s) EXCEPT !.pc = pc]
        new == [Frame(fn, path) EXCEPT !.entry = s.cwd]
    IN  [s EXCEPT !.stack = Append(SubSeq(s.stack, 1, Len(s.stack) - 1), here)
                              \o <<new>>]

\* The top frame returns; main returns after its action and the process
\* exits with status 0.
Return(s) ==
    LET fr == Top(s)
        s1 == [s EXCEPT !.stack = SubSeq(s.stack, 1, Len(s.stack) - 1),
                        !.ret = [fn |-> fr.fn, path |-> fr.path,
                                 entry |-> fr.entry, exit |-> s.cwd]]
    IN  IF Len(s1.stack) = 0 THEN Finish(s1, 0) ELSE s1

\* subprocess.check_call(cmd) returning rc, in the current directory.
Exec(s, cmd, rc) ==
    [s EXCEPT !.trace = Append(@, [cmd |-> cmd, cwd |-> s.cwd, rc |-> rc])]

\* os.chdir(path) succeeds (otherwise FileNotFoundError).
CanChdir(s, path) == path.kind = "none" \/ isdir(s.fs, Resolve(s.cwd, path))

\* change_cwd: the working directory after it.
change_cwd(c, path) == IF path.kind = "none" THEN c ELSE Resolve(c, path)

\* The lookup with the precedence reversed: the last present name wins.
LocateFromLast(f, dir, i) ==
    LET present == { j \in i..Len(COMPOSE_FILES) : isfile(f, dir, COMPOSE_FILES[j]) }
    IN  IF present = {} THEN ""
        ELSE COMPOSE_FILES[CHOOSE j \in present : \A k \in present : k <= j]

RECURSIVE LocateFrom(_, _, _)
\* for compose in COMPOSE_FILES: if os.path.isfile(compose): break; "" is the
\* else branch of the loop.
LocateFrom(f, dir, i) ==
    IF i > Len(COMPOSE_FILES) THEN ""
    ELSE IF isfile(f, dir, COMPOSE_FILES[i]) THEN COMPOSE_FILES[i]
    ELSE LocateFrom(f, dir, i + 1)

Locate(f, dir) == LocateFrom(f, dir, 1)

---------------------------------------------------------------------------
\* check_compose_file(project_path)

CheckComposeFile(s) ==
    LET fr == Top(s)
        d == change_cwd(s.cwd, fr.path)
    IN  IF ~CanChdir(s, fr.path) THEN Die(s)
        ELSE IF Locate(s.fs, d) = ""
             THEN Die(Emit([s EXCEPT !.cwd = d],
                           "ERROR: Could not find any of COMPOSE_FILES", d))
             ELSE Return(s)

check_compose_file ==
    /\ stack # <<>>
    /\ Top(State).fn = "check_compose_file"
    /\ Commit(CheckComposeFile(State))

---------------------------------------------------------------------------
\* volumes_from_compose_file()

\* The volume entries of every service that has a "volumes" key, in document
\* order.
RECURSIVE VolumeDecls(_)
VolumeDecls(services) ==
    IF services = <<>> THEN <<>>
    ELSE (IF Head(services).hasVolumes THEN Head(services).volumes ELSE <<>>)
         \o VolumeDecls(Tail(services))

\* volume.startswith("/opt/"), volume being "host:container".
VolumeStartsWithOpt(volume) == Len(volume[1]) >= 2 /\ volume[1][1] = "opt"

\* The inner loop without the /opt/ test.
ExtractOneAnyPrefix(f, volume) ==
    LET volume_path == volume[1]
    IN  IF ~isdir(f, volume_path)
        THEN <<[path |-> volume_path, owner |-> "root"]>>
        ELSE <<[path |-> volume_path, owner |-> Getpwuid(f[volume_path].uid)]>>

\* One pass of the inner loop: the record appended for a volume, if any.
ExtractOne(f, volume) ==
    LET volume_path == volume[1]
    IN  IF ~isdir(f, volume_path)
        THEN <<[path |-> volume_path, owner |-> "root"]>>
        ELSE IF ~VolumeStartsWithOpt(volume)
             THEN <<>>
             ELSE <<[path |-> volume_path,
                     owner |-> Getpwuid(f[volume_path].uid)]>>

RECURSIVE Extract(_, _)
Extract(f, decls) ==
    IF decls = <<>> THEN <<>>
    ELSE ExtractOne(f, Head(decls)) \o Extract(f, Tail(decls))

\* [ok, sel, volumes]: ok is FALSE when the function exits the process.
volumes_from_compose_file(f, dir) ==
    LET sel == Locate(f, dir)
    IN  IF sel = "" THEN [ok |-> FALSE, sel |-> sel, volumes |-> <<>>]
        ELSE LET yaml_data == f[dir].files[sel]
             IN  IF ~yaml_data.hasServices
                 THEN [ok |-> FALSE, sel |-> sel, volumes |-> <<>>]
                 ELSE LET v == Extract(f, VolumeDecls(yaml_data.services))
                      IN  [ok |-> \A i \in DOMAIN v : v[i].owner # "?",
                           sel |-> sel, volumes |-> v]

---------------------------------------------------------------------------
\* fix_volumes_ownership()

RC == {0, 1}

\* The loop body with subprocess.call in place of check_call: the return
\* code of chown is ignored.
RepairOneUnchecked(s, volume, rc) ==
    IF ~isdir(s.fs, volume.path)
    THEN Emit(s, "WARNING: create and/or set non root owner", volume.path)
    ELSE IF Getpwuid(s.fs[volume.path].uid) = "root"
    THEN Emit(s, "WARNING: set non root owner", volume.path)
    ELSE [Exec(s, SudoChownR(volume.owner, volume.path), rc)
             EXCEPT !.fs = IF rc = 0 THEN ChownR(s.fs, volume.owner, volume.path)
                          ELSE s.fs]

\* The loop body without the test for a root-owned directory.
RepairOneRootToo(s, volume, rc) ==
    IF ~isdir(s.fs, volume.path)
    THEN Emit(s, "WARNING: create and/or set non root owner", volume.path)
    ELSE IF rc = 0
    THEN [Exec(s, SudoChownR(volume.owner, volume.path), rc)
             EXCEPT !.fs = ChownR(s.fs, volume.owner, volume.path)]
    ELSE Die(Exec(s, SudoChownR(volume.owner, volume.path), rc))

\* One pass of the loop over the extracted volumes.
RepairOne(s, volume, rc) ==
    IF ~isdir(s.fs, volume.path)
    THEN Emit(s, "WARNING: create and/or set non root owner", volume.path)
    ELSE IF Getpwuid(s.fs[volume.path].uid) = "?"
    THEN Die(s)
    ELSE IF Getpwuid(s.fs[volume.path].uid) = "root"
    THEN Emit(s, "WARNING: set non root owner", volume.path)
    ELSE IF rc = 0
    THEN [Exec(s, SudoChownR(volume.owner, volume.path), rc)
             EXCEPT !.fs = ChownR(s.fs, volume.owner, volume.path)]
    ELSE Die(Exec(s, SudoChownR(volume.owner, volume.path), rc))

FixVolumesOwnership(s, rc) ==
    LET fr == Top(s)
    IN  IF fr.pc = 0
        THEN LET r == volumes_from_compose_file(s.fs, s.cwd)
             IN  IF ~r.ok THEN Die(Emit(s, "ERROR: no compose file or services", s.cwd))
                 ELSE SetTop(s, [fr EXCEPT !.pc = 1, !.vols = r.volumes,
                                           !.sel = r.sel])
        ELSE IF fr.vols = <<>> THEN Return(s)
        ELSE LET s1 == RepairOne(s, Head(fr.vols), rc)
             IN  IF s1.pstate = "exited" THEN s1
                 ELSE SetTop(s1, [fr EXCEPT !.vols = Tail(fr.vols)])

fix_volumes_ownership ==
    /\ stack # <<>>
    /\ Top(State).fn = "fix_volumes_ownership"
    /\ \E rc \in RC : Commit(FixVolumesOwnership(State, rc))

---------------------------------------------------------------------------
\* down_action, build, info_action, up_action

\* One docker-compose command whose return code is ignored.
LifecycleUnchecked(s, cmd, rc) ==
    LET fr == Top(s)
    IN  IF fr.pc = 0 THEN Call(s, 1, "check_compose_file", fr.path)
        ELSE IF ~CanChdir(s, fr.path) THEN Die(s)
        ELSE Return([Exec([s EXCEPT !.cwd = change_cwd(s.cwd, fr.path)], cmd, rc)
                        EXCEPT !.cwd = s.cwd])

\* check_compose_file(project_path), then one docker-compose command run in
\* the project directory, then back to the old working directory.
Lifecycle(s, cmd, rc) ==
    LET fr == Top(s)
    IN  IF fr.pc = 0 THEN Call(s, 1, "check_compose_file", fr.path)
        ELSE IF ~CanChdir(s, fr.path) THEN Die(s)
        ELSE LET old_cwd == s.cwd
                 s1 == Exec([s EXCEPT !.cwd = change_cwd(s.cwd, fr.path)], cmd, rc)
             IN  IF rc = 0 THEN Return([s1 EXCEPT !.cwd = old_cwd]) ELSE Die(s1)

down_action ==
    /\ stack # <<>>
    /\ Top(State).fn = "down_action"
    /\ \E rc \in RC : Commit(Lifecycle(State, DOWN, rc))

build ==
    /\ stack # <<>>
    /\ Top(State).fn = "build"
    /\ \E rc \in RC : Commit(Lifecycle(State, BUILD, rc))

info_action ==
    /\ stack # <<>>
    /\ Top(State).fn = "info_action"
    /\ \E rc \in RC :
          Commit(IF rc = 0 THEN Return(Exec(State, PS, rc))
                 ELSE Die(Exec(State, PS, rc)))

UpAction(s, rc) ==
    LET fr == Top(s)
    IN  IF fr.pc = 0 THEN Call(s, 1, "check_compose_file", fr.path)
        ELSE IF fr.pc = 1
        THEN IF ~CanChdir(s, fr.path) THEN Die(s)
             ELSE Call([SetTop(s, [fr EXCEPT !.old = s.cwd])
                           EXCEPT !.cwd = change_cwd(s.cwd, fr.path)],
                       2, "fix_volumes_ownership", NoneArg)
        ELSE IF rc = 0 THEN Return([Exec(s, UP, rc) EXCEPT !.cwd = fr.old])
        ELSE Die(Exec(s, UP, rc))

up_action ==
    /\ stack # <<>>
    /\ Top(State).fn = "up_action"
    /\ \E rc \in RC : Commit(UpAction(State, rc))

---------------------------------------------------------------------------
\* backup(project_path)

DataPath(app_name) == <<"opt", app_name, "data">>

BackupDir(app_name) == <<"opt", app_name, "backup">>

\* The early return of backup: nothing at /opt/<app_name>/data.
BackupSkips(f, dir) == ~isdir(f, DataPath(Basename(dir)))

\* The argument of the first chown on the snapshot root.
SnapshotLock == "700"

Backup(s, rc, entry) ==
    LET fr == Top(s)
        app_name == Basename(s.cwd)
        from_path == DataPath(app_name)
    IN  IF fr.pc = 0
        THEN IF ~CanChdir(s, fr.path) THEN Die(s)
             ELSE LET s1 == [s EXCEPT !.cwd = change_cwd(s.cwd, fr.path)]
                      name == Basename(s1.cwd)
                      s2 == Exec(s1, SudoMkdirP(BackupDir(name)), rc)
                  IN  IF BackupSkips(s1.fs, s1.cwd)
                      THEN Return(Emit(s1, "Skipping backup: Nothing to backup",
                                       DataPath(name)))
                      ELSE IF rc # 0 THEN Die(s2)
                      ELSE SetTop([s2 EXCEPT !.fs = MkdirP(s1.fs, BackupDir(name))],
                                  [fr EXCEPT !.pc = 1, !.old = s.cwd])
        ELSE IF fr.pc = 1
        THEN LET to_path == BackupDir(app_name) \o <<Stamped("data", s.clock)>>
                 s1 == Exec([s EXCEPT !.clock = @ + 1], SudoCpR(from_path, to_path), rc)
             IN  IF rc # 0 THEN Die(s1)
                 ELSE SetTop([s1 EXCEPT !.fs = CpR(s.fs, from_path, to_path, 0)],
                             [fr EXCEPT !.pc = 2, !.to = to_path])
        ELSE IF fr.pc = 2
        THEN LET s1 == Exec(s, SudoChown(SnapshotLock, fr.to), rc)
             IN  IF rc # 0 THEN Die(s1)
                 ELSE SetTop([s1 EXCEPT !.fs = Chown(s.fs, SnapshotLock, fr.to)],
                             [fr EXCEPT !.pc = 3, !.ents = listdir(s.fs, from_path)])
        ELSE IF fr.ents = {}
        THEN Return([Emit(s, "Backed up data", fr.to) EXCEPT !.cwd = fr.old])
        ELSE LET owner_username == Getpwuid(s.fs[entry].uid)
                 target == fr.to \o <<Basename(entry)>>
                 s1 == Exec(s, SudoChownR(owner_username, target), rc)
             IN  IF owner_username = "?" THEN Die(s)
                 ELSE IF rc # 0 THEN Die(s1)
                 ELSE SetTop([s1 EXCEPT !.fs = ChownR(s.fs, owner_username, target)],
                             [fr EXCEPT !.ents = @ \ {entry}])

\* os.listdir gives the entries in an arbitrary order.
backup ==
    /\ stack # <<>>
    /\ Top(State).fn = "backup"
    /\ \E rc \in RC :
       \E entry \in (IF Top(State).pc = 3 /\ Top(State).ents # {}
                     THEN Top(State).ents ELSE {<<>>}) :
          Commit(Backup(State, rc, entry))

---------------------------------------------------------------------------
\* backup_action(project_path)

\* The containers started again before the copy instead of after it.
BackupActionUpFirst(s) ==
    LET fr == Top(s)
    IN  IF fr.pc = 0 THEN Call(s, 1, "check_compose_file", fr.path)
        ELSE IF fr.pc = 1 THEN Call(s, 2, "down_action", fr.path)
        ELSE IF fr.pc = 2 THEN Call(s, 3, "up_action", fr.path)
        ELSE IF fr.pc = 3 THEN Call(s, 4, "backup", fr.path)
        ELSE Return(s)

BackupAction(s) ==
    LET fr == Top(s)
    IN  IF fr.pc = 0 THEN Call(s, 1, "check_compose_file", fr.path)
        ELSE IF fr.pc = 1 THEN Call(s, 2, "down_action", fr.path)
        ELSE IF fr.pc = 2 THEN Call(s, 3, "backup", fr.path)
        ELSE IF fr.pc = 3 THEN Call(s, 4, "up_action", fr.path)
        ELSE Return(s)

backup_action ==
    /\ stack # <<>>
    /\ Top(State).fn = "backup_action"
    /\ Commit(BackupAction(State))

---------------------------------------------------------------------------
\* deploy_action(project_path, replace_path)

\* f"{replace_abs}_{now.strftime(...)}"
Aside(replace_abs, t) ==
    Dirname(replace_abs.comps) \o <<Stamped(Basename(replace_abs.comps), t)>>

DeployAction(s, rc) ==
    LET fr == Top(s)
    IN  IF fr.pc = 0 /\ fr.rpath.kind = "none"
        THEN Call(s, 11, "build", fr.path)
        ELSE IF fr.pc = 11 THEN Call(s, 12, "backup_action", fr.path)
        ELSE IF fr.pc = 12 THEN Return(s)
        ELSE IF fr.pc = 0
        THEN LET replace_abs == abspath(s.cwd, fr.rpath)
                 project_abs == abspath(s.cwd, fr.path)
                 here == [fr EXCEPT !.path = project_abs, !.rpath = replace_abs,
                                    !.old = s.cwd]
             IN  Call([SetTop(s, here) EXCEPT !.cwd = <<>>],
                      1, "check_compose_file", replace_abs)
        ELSE IF fr.pc = 1 THEN Call(s, 2, "build", fr.path)
        ELSE IF fr.pc = 2 THEN Call(s, 3, "down_action", fr.rpath)
        ELSE IF fr.pc = 3
        THEN LET to_path == Aside(fr.rpath, s.clock)
                 s1 == Exec([s EXCEPT !.clock = @ + 1],
                            MvCmd(fr.rpath.comps, to_path), rc)
             IN  IF rc # 0 THEN Die(s1)
                 ELSE SetTop([s1 EXCEPT !.fs = Mv(s.fs, fr.rpath.comps, to_path)],
                             [fr EXCEPT !.pc = 4, !.to = to_path])
        ELSE IF fr.pc = 4
        THEN LET s1 == Exec(s, CpRCmd(fr.path.comps, fr.rpath.comps), rc)
             IN  IF rc # 0 THEN Die(s1)
                 ELSE SetTop([s1 EXCEPT !.fs = CpR(s.fs, fr.path.comps,
                                                   fr.rpath.comps, ChownUid(USER))],
                             [fr EXCEPT !.pc = 5])
        ELSE IF fr.pc = 5 THEN Call(s, 6, "backup_action", fr.rpath)
        ELSE Return([Emit(s, "Backed up project", fr.to) EXCEPT !.cwd = fr.old])

deploy_action ==
    /\ stack # <<>>
    /\ Top(State).fn = "deploy_action"
    /\ \E rc \in RC : Commit(DeployAction(State, rc))

---------------------------------------------------------------------------
\* main()

\* The function main dispatches an action name to.
Dispatch(action) ==
    CASE action = "deploy" -> "deploy_action"
      [] action = "backup" -> "backup_action"
      [] action = "info" -> "info_action"
      [] action = "up" -> "up_action"
      [] action = "down" -> "down_action"

\* A new process: check_docker_membership, the argument checks, then the
\* action is entered.
Main(s, member, action, project_path, replace_path) ==
    LET s0 == [s EXCEPT !.cwd = ShellCwd, !.stack = <<>>, !.trace = <<>>,
                        !.out = <<>>, !.pstate = "running", !.status = 0,
                        !.ret = NoRet, !.runsLeft = @ - 1, !.fs0 = s.fs,
                        !.argv = [action |-> action, project_path |-> project_path,
                                  replace_path |-> replace_path]]
        fr == [Frame(Dispatch(action), project_path)
                  EXCEPT !.rpath = replace_path, !.entry = ShellCwd]
    IN  IF ~member
        THEN Die(Emit(s0, "ERROR: Your user is not a member of 'docker' group", <<>>))
        ELSE IF project_path.kind # "none"
                 /\ ~isdir(s0.fs, Resolve(s0.cwd, project_path))
        THEN Die(Emit(s0, "No such project directory", project_path.comps))
        ELSE IF replace_path.kind # "none"
                 /\ ~isdir(s0.fs, Resolve(s0.cwd, replace_path))
        THEN Die(Emit(s0, "No such project directory", replace_path.comps))
        ELSE [s0 EXCEPT !.stack = <<fr>>]

\* The command lines tried: the same one again after a run that succeeded.
Invocation(actions, paths, replaces) ==
    /\ stack = <<>>
    /\ runsLeft > 0
    /\ \E member \in BOOLEAN, action \in actions, p \in paths, r \in replaces :
          /\ r.kind # "none" => action = "deploy" /\ p.kind # "none"
          /\ runs # <<>> =>
                /\ status = 0
                /\ argv = [action |-> action, project_path |-> p, replace_path |-> r]
                /\ member
          /\ Commit(Main(State, member, action, p, r))

---------------------------------------------------------------------------
\* Initial file systems.

HOME == <<"home">>
APP == <<"home", "app">>
NESTED == <<"home", "app", "app">>
PROD == <<"prod", "app">>

\* The file system holding exactly the given (path, node) pairs.
MakeFs(pairs) ==
    [p \in { x[1] : x \in pairs } |-> (CHOOSE x \in pairs : x[1] = p)[2]]

Project(names, yaml) ==
    [Dir(ChownUid(USER), M755) EXCEPT !.files = [n \in names |-> yaml]]

\* /opt/<name>/data with two entries, or nothing when mode is <<>>.
DataTree(name, mode) ==
    IF mode = <<>> THEN {}
    ELSE { <<DataPath(name), Dir(1000, mode)>>,
           <<DataPath(name) \o <<"db">>, Dir(1001, M700)>>,
           <<DataPath(name) \o <<"log">>, File(1000, M755)>> }

Volume(host) == <<host, <<"mnt">>>>

NoServicesYaml == [hasServices |-> FALSE, services |-> <<>>]

Yaml(volumes) ==
    [hasServices |-> TRUE,
     services |-> << [hasVolumes |-> FALSE, volumes |-> <<>>],
                     [hasVolumes |-> TRUE, volumes |-> volumes] >>]

\* Nothing has been run yet.
NoProcess ==
    /\ cwd = ShellCwd
    /\ stack = <<>>
    /\ trace = <<>>
    /\ out = <<>>
    /\ pstate = "shell"
    /\ status = 0
    /\ clock = 1
    /\ ret = NoRet
    /\ argv = [action |-> "", project_path |-> NoneArg, replace_path |-> NoneArg]
    /\ runs = <<>>

Skeleton ==
    { <<<<>>, Dir(0, M755)>>, <<<<"opt">>, Dir(0, M755)>>,
      <<<<"prod">>, Dir(0, M755)>>, <<<<"srv">>, Dir(0, M755)>> }

\* Orchestration: every subset of the compose file names, a project at
\* /home, /home/app, /prod/app and possibly /home/app/app, one of the last
\* three possibly without compose files, the data directory absent or
\* present, a compose file with or without "services".
Init ==
    \E names \in SUBSET ComposeNames, nested \in BOOLEAN,
       bare \in {HOME, APP, PROD}, mode \in {<<>>, M700, M755},
       yaml \in {NoServicesYaml,
                 Yaml(<<Volume(DataPath("app")), Volume(<<"srv", "x">>)>>)} :
        /\ fs = MakeFs(Skeleton
                  \cup { <<d, Project(IF d = bare /\ d # HOME THEN {} ELSE names, yaml)>> :
                            d \in {HOME, APP, PROD} \cup (IF nested THEN {NESTED} ELSE {}) }
                  \cup { <<<<"opt", n>>, Dir(0, M755)>> : n \in {"app", "home"} }
                  \cup DataTree("app", mode) \cup DataTree("home", mode))
        /\ fs0 = fs
        /\ runsLeft = 1
        /\ NoProcess

ProjectArgs == {NoneArg, Rel(<<>>), Rel(<<"app">>), Abs(APP), Rel(<<"missing">>)}

ReplaceArgs == {NoneArg, Abs(PROD)}

\* The action names main accepts.
Actions == {"backup", "deploy", "down", "info", "up"}

main == Invocation(Actions, ProjectArgs, ReplaceArgs)

Next ==
    \/ main
    \/ check_compose_file
    \/ fix_volumes_ownership
    \/ down_action
    \/ up_action
    \/ info_action
    \/ build
    \/ backup
    \/ backup_action
    \/ deploy_action

Spec == Init /\ [][Next]_vars

---------------------------------------------------------------------------
\* Volumes and ownership: one project at /home whose compose file declares
\* up to MaxVols volumes among /opt/app, /opt/app/data (inside the former)
\* and /srv/x, each absent or a directory of any owner; the same command is
\* run up to MaxRuns times in a row.

HostPaths == { <<"opt", "app">>, <<"opt", "app", "data">>, <<"srv", "x">> }

RECURSIVE SeqsUpTo(_, _)
SeqsUpTo(S, n) ==
    IF n = 0 THEN {<<>>}
    ELSE LET shorter == SeqsUpTo(S, n - 1)
         IN  shorter \cup { Append(q, x) : q \in shorter, x \in S }

Absent == [kind |-> "none", uid |-> 0, mode |-> M755, files |-> NoFiles]

Owned == { Dir(e.uid, M755) : e \in Passwd }

InitVolumes ==
    \E hosts \in SeqsUpTo(HostPaths, MaxVols),
       app \in Owned \cup {Absent}, data \in Owned \cup {Absent},
       x \in Owned \cup {Absent} :
        /\ data.kind = "dir" => app.kind = "dir"
        /\ fs = MakeFs(Skeleton
                  \cup { <<HOME, Project({COMPOSE_FILES[1]},
                                         Yaml([i \in DOMAIN hosts |-> Volume(hosts[i])]))>> }
                  \cup { pair \in { <<<<"opt", "app">>, app>>,
                                    <<<<"opt", "app", "data">>, data>>,
                                    <<<<"srv", "x">>, x>> } : pair[2].kind = "dir" })
        /\ fs0 = fs
        /\ runsLeft = MaxRuns
        /\ NoProcess

\* The actions that reach the ownership repairer.
VolumeActions == {"backup", "deploy", "up"}

NoPathArgs == {NoneArg}

main_again == Invocation(VolumeActions, NoPathArgs, NoPathArgs)

NextVolumes ==
    \/ main_again
    \/ check_compose_file
    \/ fix_volumes_ownership
    \/ down_action
    \/ up_action
    \/ build
    \/ backup
    \/ backup_action
    \/ deploy_action

SpecVolumes == InitVolumes /\ [][NextVolumes]_vars

---------------------------------------------------------------------------
\* Vocabulary of the properties.

\* main got past check_docker_membership and the argument checks.
Dispatched ==
    /\ pstate # "shell"
    /\ \A i \in DOMAIN out :
          out[i].msg \notin {"ERROR: Your user is not a member of 'docker' group",
                             "No such project directory"}

\* The directories the command line names, seen from the starting directory.
ProjectDir == Resolve(ShellCwd, argv.project_path)
TargetDir == Resolve(ShellCwd, argv.replace_path)

IsReplaceDeploy == argv.action = "deploy" /\ argv.replace_path.kind # "none"

UnderOpt(p) == Len(p) >= 2 /\ p[1] = "opt"

InBackup(p) == Len(p) >= 4 /\ p[1] = "opt" /\ p[3] = "backup"

IsCopy(e) == e.cmd.words = <<"sudo", "cp", "-r">>
IsLock(e) == e.cmd.words = <<"sudo", "chown">>
IsChownR(e) == e.cmd.words = <<"sudo", "chown", "-R">>
IsEntryChown(e) == IsChownR(e) /\ InBackup(e.cmd.paths[1])
IsRepair(e) == IsChownR(e) /\ ~InBackup(e.cmd.paths[1])

AllSucceeded == \A i \in DOMAIN trace : trace[i].rc = 0

InRepairer ==
    /\ stack # <<>>
    /\ Top(State).fn = "fix_volumes_ownership"
    /\ Top(State).pc = 1

SkipMessage == "Skipping backup: Nothing to backup"

---------------------------------------------------------------------------
\* The functions that take a project path and bracket their work with
\* change_cwd.
TakesProjectPath ==
    {"up_action", "down_action", "build", "backup", "backup_action", "deploy_action"}

\* C1: whenever an action that takes a project path (up, down, build,
\* backup, backup_action, deploy) returns normally, the working directory
\* is the one the action was entered with, also when backup skips the copy.
C1_CwdRestored ==
    ret.fn \in TakesProjectPath => ret.exit = ret.entry

\* C2: a backup of a project that has a compose file (with services) and no
\* /opt/<name>/data prints the skip message, issues no mkdir, cp or snapshot
\* chown, runs docker-compose down and then docker-compose up -d in the
\* project directory, and exits with status 0, for every valid path argument.
C2_SkipKeepsBracket ==
    ( /\ pstate = "exited"
      /\ Dispatched
      /\ argv.action = "backup"
      /\ Locate(fs0, ProjectDir) # ""
      /\ fs0[ProjectDir].files[Locate(fs0, ProjectDir)].hasServices
      /\ BackupSkips(fs0, ProjectDir)
      /\ AllSucceeded )
        => /\ status = 0
           /\ \E i \in DOMAIN out : out[i].msg = SkipMessage
           /\ \A i \in DOMAIN trace :
                 /\ trace[i].cmd.words[1] # "sudo" \/ IsRepair(trace[i])
           /\ Len(trace) >= 2
           /\ trace[1] = [cmd |-> DOWN, cwd |-> ProjectDir, rc |-> 0]
           /\ trace[Len(trace)] = [cmd |-> UP, cwd |-> ProjectDir, rc |-> 0]

---------------------------------------------------------------------------
\* The order of the commands of a replace-mode deploy, as an automaton over
\* the kinds of command.

Kind(e) ==
    CASE e.cmd = BUILD /\ e.cwd = ProjectDir -> "build"
      [] e.cmd = DOWN /\ e.cwd = TargetDir -> "down"
      [] e.cmd.words = <<"mv">> ->
            IF /\ e.cwd = <<>>
               /\ e.cmd.paths[1] = TargetDir
               /\ Dirname(e.cmd.paths[2]) = Dirname(TargetDir)
               /\ e.cmd.paths[2] \notin DOMAIN fs0
            THEN "mv" ELSE "other"
      [] e.cmd.words = <<"cp", "-r">> ->
            IF e.cmd.paths = <<ProjectDir, TargetDir>> THEN "cp" ELSE "other"
      [] e.cmd.words = <<"sudo", "mkdir", "-p">> ->
            IF e.cmd.paths = <<BackupDir(Basename(TargetDir))>> /\ e.cwd = TargetDir
            THEN "mkdir" ELSE "other"
      [] IsCopy(e) ->
            IF /\ e.cmd.paths[1] = DataPath(Basename(TargetDir))
               /\ Dirname(e.cmd.paths[2]) = BackupDir(Basename(TargetDir))
            THEN "copy" ELSE "other"
      [] IsLock(e) -> "lock"
      [] IsEntryChown(e) -> "entry"
      [] IsRepair(e) -> "repair"
      [] e.cmd = UP /\ e.cwd = TargetDir -> "up"
      [] OTHER -> "other"

\* The data directory of the target is there when the deploy starts.
TargetHasData == isdir(fs0, DataPath(Basename(TargetDir)))

Step(q, k) ==
    CASE q = "start" /\ k = "build" -> "built"
      [] q = "built" /\ k = "down" -> "stopped"
      [] q = "stopped" /\ k = "mv" -> "moved"
      [] q = "moved" /\ k = "cp" -> "copied"
      [] q = "copied" /\ k = "down" -> "down again"
      [] q = "down again" /\ k = "mkdir" /\ TargetHasData -> "backup dir"
      [] q = "backup dir" /\ k = "copy" -> "snapshot"
      [] q = "snapshot" /\ k = "lock" -> "owned"
      [] q = "owned" /\ k = "entry" -> "owned"
      [] q = "down again" /\ (k = "repair" \/ k = "up") /\ ~TargetHasData ->
            IF k = "up" THEN "up" ELSE "repaired"
      [] (q = "owned" \/ q = "repaired") /\ (k = "repair" \/ k = "up") ->
            IF k = "up" THEN "up" ELSE "repaired"
      [] OTHER -> "stuck"

RECURSIVE Accept(_, _)
Accept(q, tr) == IF tr = <<>> THEN q ELSE Accept(Step(q, Kind(Head(tr))), Tail(tr))

\* C3: in a replace-mode deploy the commands come in the order build (new),
\* down (target), mv target aside, cp -r new target, then the backup
\* sequence on the target: down, the data copy when the data directory
\* exists (mkdir, cp, chown of the root, chown of every entry), the repair
\* chowns, up -d; each is issued only after all before it succeeded, and a
\* run that exits with status 0 issued all of them.
C3_ReplaceOrder ==
    (IsReplaceDeploy /\ Dispatched)
        => /\ Accept("start", trace) # "stuck"
           /\ \A i \in DOMAIN trace : i < Len(trace) => trace[i].rc = 0
           /\ (pstate = "exited" /\ status = 0)
                 => /\ Accept("start", trace) = "up"
                    /\ TargetHasData =>
                          Cardinality({ i \in DOMAIN trace : Kind(trace[i]) = "entry" })
                             = Cardinality(listdir(fs0, DataPath(Basename(TargetDir))))

C3_Witness ==
    /\ IsReplaceDeploy
    /\ pstate = "exited"
    /\ status = 0
    /\ TargetHasData
    /\ \E i \in DOMAIN trace : Kind(trace[i]) = "repair"
    /\ Len(trace) >= 12

---------------------------------------------------------------------------
\* C4: fail fast. A command that returned nonzero is the last command of
\* its run, the process has exited with a nonzero status, and from then on
\* neither the file system nor the list of commands changes (nothing is
\* undone, nothing more is run).
C4_FailFast ==
    /\ [](\A i \in DOMAIN trace :
             trace[i].rc # 0
                => i = Len(trace) /\ pstate = "exited" /\ status # 0)
    /\ [][(\E i \in DOMAIN trace : trace[i].rc # 0)
             => fs' = fs /\ trace' = trace]_vars

C4_Witness ==
    /\ pstate = "exited"
    /\ status = 1
    /\ Len(trace) >= 3
    /\ trace[Len(trace)].cmd.words = <<"mv">>
    /\ trace[Len(trace)].rc = 1
    /\ fs = fs0

---------------------------------------------------------------------------
\* The bracket around the data copy at position i of the run.

\* A successful down of the same project before it, and no up in between.
DownBefore(i) ==
    \E d \in 1..(i - 1) :
        /\ trace[d] = [cmd |-> DOWN, cwd |-> trace[i].cwd, rc |-> 0]
        /\ \A k \in d..i : trace[k].cmd # UP

\* No up before the last chown on the snapshot.
NoUpUntilOwned(i) ==
    \A k \in (i + 1)..Len(trace) :
        (IsLock(trace[k]) \/ IsEntryChown(trace[k]))
            => \A m \in i..k : trace[m].cmd # UP

UpAfter(i) ==
    \E j \in (i + 1)..Len(trace) : trace[j].cmd = UP /\ trace[j].cwd = trace[i].cwd

\* C5 as stated: the data copy comes after a successful down of the project
\* with no up between that down and the end of the copy and its chowns, and
\* a successful copy is always followed by up -d.
C5_AlwaysRestarted ==
    \A i \in DOMAIN trace :
        IsCopy(trace[i])
            => /\ DownBefore(i)
               /\ NoUpUntilOwned(i)
               /\ (trace[i].rc = 0 /\ pstate = "exited") => UpAfter(i)

\* C5 as amended: the same bracket, and the copy is followed by up -d in
\* every run that exits with status 0 (a later command that fails, or a
\* compose file without services, ends the run with the project down).
C5_Bracketed ==
    \A i \in DOMAIN trace :
        IsCopy(trace[i])
            => /\ DownBefore(i)
               /\ NoUpUntilOwned(i)
               /\ (pstate = "exited" /\ status = 0) => UpAfter(i)

C5_Witness ==
    /\ argv.action = "backup"
    /\ pstate = "exited"
    /\ status = 0
    /\ \E i \in DOMAIN trace : IsCopy(trace[i]) /\ trace[i].rc = 0

---------------------------------------------------------------------------
\* name is the first of COMPOSE_FILES among files.
FirstPresent(files, name) ==
    \E i \in DOMAIN COMPOSE_FILES :
        /\ COMPOSE_FILES[i] = name
        /\ name \in DOMAIN files
        /\ \A j \in 1..(i - 1) : COMPOSE_FILES[j] \notin DOMAIN files

\* A directory the action needs a compose file in has none of the four.
ComposeMissing ==
    \/ Locate(fs0, ProjectDir) = ""
    \/ IsReplaceDeploy /\ Locate(fs0, TargetDir) = ""

\* C6: the compose file selected is the first that is present in the order
\* docker-compose.yml, docker-compose.yaml, compose.yml, compose.yaml; when
\* none is present, up, down, backup and deploy issue no external command
\* and the process exits with status 1, and no failed lookup is followed by
\* anything but that exit.
C6_Locator ==
    /\ InRepairer => FirstPresent(fs[cwd].files, Top(State).sel)
    /\ (Dispatched /\ argv.action # "info"
           /\ ComposeMissing)
          => /\ trace = <<>>
             /\ stack = <<>> => pstate = "exited" /\ status = 1
    /\ \A i \in DOMAIN out :
          out[i].msg = "ERROR: Could not find any of COMPOSE_FILES"
             => i = Len(out) /\ pstate = "exited" /\ status = 1

C6_Witness ==
    /\ InRepairer
    /\ Top(State).sel = COMPOSE_FILES[2]
    /\ DOMAIN fs[cwd].files = {COMPOSE_FILES[2], COMPOSE_FILES[4]}

---------------------------------------------------------------------------
\* C9: after a backup that copied the data directory and exited with
\* status 0, the snapshot root has mode 700 and still the owner the copy
\* gave it, and every top-level entry of the snapshot has the owner of the
\* entry of the same name in the data directory.
C9_SnapshotLocked ==
    (argv.action = "backup" /\ pstate = "exited" /\ status = 0)
        => \A i \in DOMAIN trace :
              IsCopy(trace[i])
                 => LET data == trace[i].cmd.paths[1]
                        snap == trace[i].cmd.paths[2]
                    IN  /\ fs[snap].mode = M700
                        /\ fs[snap].uid = ChownUid("root")
                        /\ \A e \in listdir(fs0, data) :
                              fs[snap \o <<Basename(e)>>].uid = fs0[e].uid

---------------------------------------------------------------------------
\* C7 as stated: the list of the extractor holds only paths under /opt/.
C7_OnlyOptRecorded ==
    InRepairer
        => \A i \in DOMAIN Top(State).vols : UnderOpt(Top(State).vols[i].path)

\* C7 as amended: a host path that is a directory is recorded only when it
\* is under /opt/; the paths of the list that are not under /opt/ are not
\* directories, and those are paired with the owner "root".
C7_DirsOnlyUnderOpt ==
    InRepairer
        => \A i \in DOMAIN Top(State).vols :
              LET v == Top(State).vols[i]
              IN  /\ isdir(fs, v.path) => UnderOpt(v.path)
                  /\ ~isdir(fs, v.path) => v.owner = "root"

C7_Witness ==
    /\ InRepairer
    /\ trace = <<>>
    /\ isdir(fs, <<"srv", "x">>)
    /\ \E k \in DOMAIN VolumeDecls(fs[cwd].files[Top(State).sel].services) :
          VolumeDecls(fs[cwd].files[Top(State).sel].services)[k][1] = <<"srv", "x">>
    /\ Top(State).vols # <<>>
    /\ \A i \in DOMAIN Top(State).vols : Top(State).vols[i].path # <<"srv", "x">>

---------------------------------------------------------------------------
\* The repair chown this step issues, if it issues one.
RepairIssued ==
    /\ Len(trace') = Len(trace) + 1
    /\ IsRepair(trace'[Len(trace')])

\* C8 as stated: a repair chown is issued only for a path that is then a
\* directory under /opt/ owned by a user other than root, and it names that
\* directory's current owner.
C8_ChownToCurrentOwner ==
    [][RepairIssued
          => LET e == trace'[Len(trace')]
                 p == e.cmd.paths[1]
             IN  /\ isdir(fs, p)
                 /\ UnderOpt(p)
                 /\ Getpwuid(fs[p].uid) # "root"
                 /\ e.cmd.owner = Getpwuid(fs[p].uid)]_vars

\* C8 as amended: the same, but the owner named is the one the extractor
\* recorded, the directory's owner when the repair began.
C8_ChownToRecordedOwner ==
    [][RepairIssued
          => LET e == trace'[Len(trace')]
                 p == e.cmd.paths[1]
             IN  /\ isdir(fs, p)
                 /\ UnderOpt(p)
                 /\ Getpwuid(fs[p].uid) # "root"
                 /\ isdir(fs0, p)
                 /\ e.cmd.owner = Getpwuid(fs0[p].uid)]_vars

C8_Witness ==
    \E i \in DOMAIN trace :
        /\ i > 1
        /\ IsRepair(trace[i]) /\ IsRepair(trace[i - 1])
        /\ trace[i].cmd.paths[1] = <<"opt", "app", "data">>
        /\ trace[i - 1].cmd.paths[1] = <<"opt", "app">>
        /\ trace[i].cmd.owner # trace[i - 1].cmd.owner
        /\ trace[i].rc = 0

---------------------------------------------------------------------------
\* C10: up run twice in a row with nothing else touching the file system
\* issues the same commands both times: the same repair chowns in the same
\* order, each before the run's up -d.
C10_SameRepairTwice ==
    ( /\ Len(runs) >= 2
      /\ runs[1].argv.action = "up"
      /\ runs[1].status = 0
      /\ runs[2].status = 0 )
        => /\ runs[1].trace = runs[2].trace
           /\ \A r \in 1..2 : \A i \in DOMAIN runs[r].trace :
                 runs[r].trace[i].cmd = UP <=> i = Len(runs[r].trace)

====
